---- MODULE Spec2Model ----
(***************************************************************************)
(* Model of lib/PgMayflower.js: the SQL migration runner.                  *)
(*                                                                         *)
(* Strings that the code inspects (file names, file contents) are          *)
(* sequences of one-character strings.  The database is modelled by the    *)
(* part of it the code talks to: whether the ledger table exists, its      *)
(* rows, the effects of the script SQL executed so far, and the open       *)
(* transaction (a snapshot that ROLLBACK or a disconnect restores).        *)
(* Script SQL is opaque: it does not touch the ledger table.               *)
(***************************************************************************)
EXTENDS Integers, Sequences, FiniteSets, TLC

(* ------------------------------ bounds --------------------------------- *)

\* number of migrateAll runs explored in one behaviour
MaxRuns == 2

\* number of file names a directory listing draws from
MaxFiles == 2

\* largest number of statements one migrate call issues before its catch block
MaxStatements == 8

\* the runtime the timer reports for a script, in milliseconds
hrtime == 5

(* --------------------------- string helpers ---------------------------- *)

\* characters that String.prototype.trim removes (those used in the model)
WhiteSpace == {" ", "\t", "\n", "\r"}

\* characters the regex dot does not match
LineTerminators == {"\n", "\r"}

\* UTF-16 code units of the characters used in file names
CharCode(ch) ==
    CASE ch = "." -> 46
      [] ch = "0" -> 48
      [] ch = "1" -> 49
      [] ch = "2" -> 50
      [] ch = "_" -> 95
      [] ch = "a" -> 97
      [] ch = "b" -> 98
      [] ch = "c" -> 99
      [] ch = "d" -> 100
      [] ch = "l" -> 108
      [] ch = "m" -> 109
      [] ch = "q" -> 113
      [] ch = "s" -> 115
      [] OTHER -> 120

RECURSIVE trimStart(_)
trimStart(s) ==
    IF s = <<>> THEN <<>>
    ELSE IF Head(s) \in WhiteSpace THEN trimStart(Tail(s))
    ELSE s

RECURSIVE trimEnd(_)
trimEnd(s) ==
    IF s = <<>> THEN <<>>
    ELSE IF s[Len(s)] \in WhiteSpace THEN trimEnd(SubSeq(s, 1, Len(s) - 1))
    ELSE s

\* sql.trim()
trim(s) == trimEnd(trimStart(s))

\* sql.replace(/\r\n/g, '\n')
RECURSIVE replaceCRLF(_)
replaceCRLF(s) ==
    IF s = <<>> THEN <<>>
    ELSE IF Len(s) >= 2 /\ s[1] = "\r" /\ s[2] = "\n"
         THEN <<"\n">> \o replaceCRLF(SubSeq(s, 3, Len(s)))
    ELSE <<Head(s)>> \o replaceCRLF(Tail(s))

\* md5 digest of the argument, formatted 8-4-4-4-12.  The digest is modelled
\* as collision free: equal hashes exactly for equal arguments.
getHash(sql) == [md5 |-> sql]

\* new SqlScript(name, sql): the statement is the trimmed text, the hash is
\* taken of the text as read (CRLF replaced), not of the trimmed text.
SqlScript(name, sql) ==
    [name |-> name, sql |-> trim(sql), hash |-> getHash(replaceCRLF(sql))]

\* new MigrationResult(name)
MigrationResult(name) ==
    [name |-> name, skipped |-> TRUE, runtime |-> 0, message |-> <<>>]

\* /.+\.sql$/.test(name)
sqlExt(name) ==
    /\ Len(name) >= 5
    /\ SubSeq(name, Len(name) - 3, Len(name)) = <<".", "s", "q", "l">>
    /\ name[Len(name) - 4] \notin LineTerminators

\* a < b in the code-unit order Array.prototype.sort uses by default
RECURSIVE StrLess(_, _)
StrLess(a, b) ==
    IF b = <<>> THEN FALSE
    ELSE IF a = <<>> THEN TRUE
    ELSE IF CharCode(Head(a)) # CharCode(Head(b))
         THEN CharCode(Head(a)) < CharCode(Head(b))
    ELSE StrLess(Tail(a), Tail(b))

\* insert one name into a sorted sequence
RECURSIVE SortedInsert(_, _)
SortedInsert(s, x) ==
    IF s = <<>> THEN <<x>>
    ELSE IF StrLess(x, Head(s)) THEN <<x>> \o s
    ELSE <<Head(s)>> \o SortedInsert(Tail(s), x)

\* names.sort()
RECURSIVE sort(_)
sort(names) ==
    IF names = <<>> THEN <<>>
    ELSE SortedInsert(sort(Tail(names)), Head(names))

\* lines 84-88: the listed names that match the extension pattern
RECURSIVE SelectNames(_)
SelectNames(files) ==
    IF files = <<>> THEN <<>>
    ELSE IF sqlExt(Head(files)) THEN <<Head(files)>> \o SelectNames(Tail(files))
    ELSE SelectNames(Tail(files))

\* getScript(name): read the file and build the script
getScript(content, name) == SqlScript(name, content[name])

\* lines 94-99: load each script, leaving out the empty ones
RECURSIVE LoadScripts(_, _)
LoadScripts(content, names) ==
    IF names = <<>> THEN <<>>
    ELSE LET s == getScript(content, Head(names))
         IN  IF s.sql # <<>>
             THEN <<s>> \o LoadScripts(content, Tail(names))
             ELSE LoadScripts(content, Tail(names))

\* variant: the names are not sorted
getAllScripts_unsorted(files, content) == LoadScripts(content, SelectNames(files))

\* variant: empty scripts are not left out
getAllScripts_keepsEmpty(files, content) ==
    [k \in 1..Len(SelectNames(files)) |->
        getScript(content, sort(SelectNames(files))[k])]

\* getAllScripts(): files is what readdir returned (any order), content maps
\* each file name to the text of the file
getAllScripts(files, content) == LoadScripts(content, sort(SelectNames(files)))

(* ------------------------------ database ------------------------------- *)

NoErr == [type |-> "none", op |-> "none"]

\* no transaction open
NoTx == [open |-> FALSE, te |-> FALSE, ledger |-> {}, applied |-> <<>>]

\* the positional parameters of a query and the script it is issued for
Params(script, duration) ==
    [name |-> script.name, hash |-> script.hash, sql |-> script.sql,
     duration |-> duration]

\* What the server does with one statement.  c carries the database state
\* (te: ledger table exists, ledger: its rows, applied: effects of script
\* SQL, tx: snapshot taken at BEGIN).  The table has PRIMARY KEY (hash) and
\* UNIQUE (filename); a statement that names a missing table fails.
dbExec(c, op, p) ==
    LET base == [te |-> c.te, ledger |-> c.ledger, applied |-> c.applied,
                 tx |-> c.tx, rowCount |-> 0, rows |-> {}, err |-> NoErr]
        fail(why) == [base EXCEPT !.err = [type |-> why, op |-> op]]
    IN  CASE op = "SELECT_TABLES" ->
               [base EXCEPT !.rowCount = IF c.te THEN 1 ELSE 0]
          [] op = "CREATE_TABLE" ->
               IF c.te THEN fail("relation")
               ELSE [base EXCEPT !.te = TRUE, !.ledger = {}]
          [] op = "SELECT_BY_HASH" ->
               IF ~c.te THEN fail("relation")
               ELSE LET found == {r \in c.ledger : r.hash = p.hash}
                    IN  [base EXCEPT !.rows = found,
                                     !.rowCount = Cardinality(found)]
          [] op = "SELECT_BY_FILENAME" ->
               IF ~c.te THEN fail("relation")
               ELSE LET found == {r \in c.ledger : r.filename = p.name}
                    IN  [base EXCEPT !.rows = found,
                                     !.rowCount = Cardinality(found)]
          [] op = "UPDATE_FILENAME" ->
               IF ~c.te THEN fail("relation")
               ELSE IF /\ \E r \in c.ledger : r.hash = p.hash
                       /\ \E r \in c.ledger :
                             r.hash # p.hash /\ r.filename = p.name
               THEN fail("constraint")
               ELSE [base EXCEPT !.ledger =
                        {IF r.hash = p.hash
                         THEN [r EXCEPT !.filename = p.name] ELSE r
                         : r \in c.ledger}]
          [] op = "UPDATE_HASH" ->
               IF ~c.te THEN fail("relation")
               ELSE IF /\ \E r \in c.ledger : r.filename = p.name
                       /\ \E r \in c.ledger :
                             r.filename # p.name /\ r.hash = p.hash
               THEN fail("constraint")
               ELSE [base EXCEPT !.ledger =
                        {IF r.filename = p.name
                         THEN [r EXCEPT !.hash = p.hash,
                                        !.duration = p.duration]
                         ELSE r
                         : r \in c.ledger}]
          [] op = "INSERT" ->
               IF ~c.te THEN fail("relation")
               ELSE IF \E r \in c.ledger :
                          r.hash = p.hash \/ r.filename = p.name
               THEN fail("constraint")
               ELSE [base EXCEPT !.ledger = c.ledger \cup
                        {[hash |-> p.hash, filename |-> p.name,
                          duration |-> p.duration]}]
          [] op = "BEGIN" ->
               IF c.tx.open THEN base
               ELSE [base EXCEPT !.tx = [open |-> TRUE, te |-> c.te,
                                         ledger |-> c.ledger,
                                         applied |-> c.applied]]
          [] op = "SCRIPT" ->
               [base EXCEPT !.applied = Append(c.applied, p.sql)]
          [] op = "COMMIT" ->
               [base EXCEPT !.tx = NoTx]
          [] op = "ROLLBACK" ->
               IF c.tx.open
               THEN [base EXCEPT !.te = c.tx.te, !.ledger = c.tx.ledger,
                                 !.applied = c.tx.applied, !.tx = NoTx]
               ELSE base

\* the statement is counted and logged
sent(c, op, p, ok) ==
    [c EXCEPT !.nq = @ + 1,
              !.log = Append(@, [op |-> op, name |-> p.name, ok |-> ok])]

\* control leaves with an exception
thrown(c, err) == [c EXCEPT !.st = "throw", !.err = err]

\* the server's answer r reaches the caller: an error is thrown, a result
\* is kept with the new database state
answered(c, op, p, r) ==
    IF r.err.type # "none" THEN thrown(sent(c, op, p, FALSE), r.err)
    ELSE [sent(c, op, p, TRUE) EXCEPT !.te = r.te, !.ledger = r.ledger,
                                      !.applied = r.applied, !.tx = r.tx,
                                      !.rowCount = r.rowCount, !.rows = r.rows]

\* db.query_(sql, params): the statement is sent and either fails (the
\* failAt-th statement of this migrate call is the one the environment makes
\* fail) or is answered by the server.
query_(c, op, p, failAt) ==
    IF c.st # "run" THEN c
    ELSE IF c.nq + 1 = failAt
         THEN thrown([sent(c, op, p, FALSE) EXCEPT !.inj = @ + 1],
                     [type |-> "failed", op |-> op])
    ELSE answered(c, op, p, dbExec(c, op, p))

(* ------------------------- createMigrationsTable ----------------------- *)

\* lines 55, 72: this._tableExists = true
tableExists(c) == IF c.st # "run" THEN c ELSE [c EXCEPT !.flag = TRUE]

\* variant: the table is created in preview mode too
tableChecked_ignoresPreview(c, options, p, env) ==
    IF c.st # "run" THEN c
    ELSE IF c.rowCount > 0 THEN tableExists(c)
    ELSE tableExists(query_(c, "CREATE_TABLE", p, env.failAt))

\* lines 53-72: after the catalog query
tableChecked(c, options, p, env) ==
    IF c.st # "run" THEN c
    ELSE IF c.rowCount > 0 THEN tableExists(c)
    ELSE IF options.preview THEN c
    ELSE tableExists(query_(c, "CREATE_TABLE", p, env.failAt))

\* variant: the catalog is asked on every call
createMigrationsTable_noMemo(c, options, p, env) ==
    tableChecked(query_(c, "SELECT_TABLES", p, env.failAt), options, p, env)

\* lines 46-73
createMigrationsTable(c, options, p, env) ==
    IF c.flag THEN c
    ELSE tableChecked(query_(c, "SELECT_TABLES", p, env.failAt),
                      options, p, env)

(* -------------------------------- migrate ------------------------------ *)

RenameMessage(name) == <<"Filename has changed in the database; updating", name>>

SuccessMessage(name) == <<"Successfully migrated", name>>

ConflictError == [type |-> "conflict", op |-> "none"]

\* return res
returns(c) == IF c.st = "run" THEN [c EXCEPT !.st = "ret"] ELSE c

\* variant: the lookup by hash is always sent
selectByHash_alwaysQueries(c, options, p, env) ==
    IF c.st # "run" THEN c
    ELSE query_(c, "SELECT_BY_HASH", p, env.failAt)

\* lines 127-137: previous migration by hash
selectByHash(c, options, p, env) ==
    IF c.st # "run" THEN c
    ELSE IF ~c.flag /\ options.preview
         THEN [c EXCEPT !.rowCount = 0, !.rows = {}]
    ELSE query_(c, "SELECT_BY_HASH", p, env.failAt)

\* variant: a changed file name is reported and not written
alreadyApplied_noRename(c, options, p, env) ==
    IF c.st # "run" \/ c.rowCount = 0 THEN c
    ELSE IF (CHOOSE r \in c.rows : TRUE).filename # p.name
         THEN returns([c EXCEPT !.res.message = RenameMessage(p.name)])
    ELSE returns(c)

\* variant: force also overrides the match by hash
alreadyApplied_forceReapplies(c, options, p, env) ==
    IF c.st # "run" \/ c.rowCount = 0 \/ options.force THEN c
    ELSE returns(c)

\* lines 139-154: the migration has already been applied
alreadyApplied(c, options, p, env) ==
    IF c.st # "run" \/ c.rowCount = 0 THEN c
    ELSE IF (CHOOSE r \in c.rows : TRUE).filename # p.name
         THEN IF ~options.preview
              THEN returns(query_([c EXCEPT !.res.message = RenameMessage(p.name)],
                                  "UPDATE_FILENAME", p, env.failAt))
              ELSE returns([c EXCEPT !.res.message = RenameMessage(p.name)])
    ELSE returns(c)

\* variant: the lookup by file name is not made
selectByFilename_notFound(c, options, p, env) ==
    IF c.st # "run" THEN c
    ELSE [c EXCEPT !.rowCount = 0, !.rows = {}]

\* lines 156-164: previous migration by filename
selectByFilename(c, options, p, env) ==
    IF c.st # "run" THEN c
    ELSE IF ~c.flag /\ options.preview
         THEN [c EXCEPT !.rowCount = 0, !.rows = {}]
    ELSE query_(c, "SELECT_BY_FILENAME", p, env.failAt)

\* variant: the guard does not look at options.force
conflictGuard_alwaysForce(c, options) ==
    IF c.st # "run" \/ c.rowCount = 0 THEN c
    ELSE [c EXCEPT !.exists = TRUE]

\* lines 166-172: the conflict guard
conflictGuard(c, options) ==
    IF c.st # "run" \/ c.rowCount = 0 THEN c
    ELSE IF ~options.force THEN thrown(c, ConflictError)
    ELSE [c EXCEPT !.exists = TRUE]

\* lines 183-185: stop the timer
stopTimer(c) == IF c.st # "run" THEN c ELSE [c EXCEPT !.res.runtime = hrtime]

\* variant: the ledger is never written
ledgerWrite_never(c, options, script, env) == c

\* variant: a forced update leaves the row as it is
ledgerWrite_insertOnly(c, options, script, env) ==
    IF c.st # "run" THEN c
    ELSE IF c.flag /\ ~options.preview /\ ~c.exists
         THEN query_(c, "INSERT", Params(script, c.res.runtime), env.failAt)
    ELSE c

\* variant: the write is always an insert
ledgerWrite_alwaysInsert(c, options, script, env) ==
    IF c.st # "run" THEN c
    ELSE IF c.flag /\ ~options.preview
         THEN query_(c, "INSERT", Params(script, c.res.runtime), env.failAt)
    ELSE c

\* lines 187-201: mark the migration as applied in the database
ledgerWrite(c, options, script, env) ==
    IF c.st # "run" THEN c
    ELSE IF c.flag /\ ~options.preview
         THEN IF c.exists
              THEN query_(c, "UPDATE_HASH", Params(script, c.res.runtime),
                          env.failAt)
              ELSE query_(c, "INSERT", Params(script, c.res.runtime),
                          env.failAt)
    ELSE c

\* lines 204-205: the outcome of a migration that went through
succeeded(c, script) ==
    IF c.st # "run" THEN c
    ELSE [c EXCEPT !.res.skipped = FALSE,
                   !.res.message = SuccessMessage(script.name)]

\* lines 181-205: the body of the try block
tryBlock(c, options, script, env) ==
    succeeded(
        query_(ledgerWrite(stopTimer(query_(c, "SCRIPT", Params(script, 0),
                                            env.failAt)),
                           options, script, env),
               IF options.preview THEN "ROLLBACK" ELSE "COMMIT",
               Params(script, 0), env.failAt),
        script)

\* line 210: throw ex, unless the ROLLBACK has thrown already
rethrow(c, ex) == IF c.st = "run" THEN thrown(c, ex) ELSE c

\* variant: the catch block rethrows without rolling back
catchBlock_noRollback(c, script, env) == c

\* lines 207-211: roll back and rethrow; when the ROLLBACK itself throws,
\* its error leaves the catch block in place of ex
catchBlock(c, script, env) ==
    rethrow(query_([c EXCEPT !.st = "run", !.err = NoErr], "ROLLBACK",
                   Params(script, 0), IF env.rbFails THEN c.nq + 1 ELSE 0),
            c.err)

\* lines 179-213: what the try statement makes of its body
tryCatch(c, script, env) ==
    IF c.st = "throw" THEN catchBlock(c, script, env) ELSE returns(c)

\* lines 176-213: after BEGIN
transaction(c, options, script, env) ==
    IF c.st # "run" THEN c
    ELSE tryCatch(tryBlock(c, options, script, env), script, env)

\* variant: the script is run without BEGIN
applyScript_noBegin(c, options, script, env) ==
    IF c.st # "run" THEN c
    ELSE transaction(c, options, script, env)

\* lines 174-213: begin, try/catch, return
applyScript(c, options, script, env) ==
    IF c.st # "run" THEN c
    ELSE transaction(query_(c, "BEGIN", Params(script, 0), env.failAt),
                     options, script, env)

\* lines 122-123: the locals of migrate over database and instance state d
locals(d, script) ==
    [te |-> d.te, ledger |-> d.ledger, applied |-> d.applied, tx |-> d.tx,
     flag |-> d.flag, log |-> <<>>, nq |-> 0, inj |-> 0, st |-> "run",
     err |-> NoErr, rowCount |-> 0, rows |-> {},
     res |-> MigrationResult(script.name), exists |-> FALSE]

\* migrate(db, options, script).  d is the database and instance state at the
\* call; env says which statement (if any) the environment makes fail,
\* and whether the ROLLBACK of the catch block fails.
migrate(d, options, script, env) ==
    applyScript(
        conflictGuard(
            selectByFilename(
                alreadyApplied(
                    selectByHash(
                        createMigrationsTable(locals(d, script), options,
                                              Params(script, 0), env),
                        options, Params(script, 0), env),
                    options, Params(script, 0), env),
                options, Params(script, 0), env),
            options),
        options, script, env)

(* ------------------------------- inputs -------------------------------- *)

AllFiles ==
    << <<"b", ".", "s", "q", "l">>,
       <<"a", ".", "s", "q", "l">>,
       <<"a", ".", "m", "d">>,
       <<"c", ".", "s", "q", "l">> >>

FileNames ==
    {AllFiles[k] : k \in 1..(IF MaxFiles < Len(AllFiles) THEN MaxFiles
                             ELSE Len(AllFiles))}

\* the texts a file may hold: two statements, the first of them with a
\* trailing newline, and a blank file
FileContents == { <<"x">>, <<"y">>, <<"x", "\n">>, <<" ">> }

\* the directories: some of the file names, each with a content
Directories == UNION {[S -> FileContents] : S \in SUBSET FileNames}

\* the orders in which readdir may list the files of a directory
Listings(S) ==
    {f \in [1..Cardinality(S) -> S] : \A j, k \in 1..Cardinality(S) :
                                         f[j] = f[k] => j = k}

(* ------------------------------- state --------------------------------- *)

VARIABLES
    te,            \* database: the ledger table exists
    ledger,        \* database: rows of the ledger table
    applied,       \* database: effects of the script SQL executed, in order
    tx,            \* database: the open transaction (snapshot at BEGIN)
    _tableExists,  \* this._tableExists
    pc,            \* position in migrateAll
    runs,          \* number of migrateAll calls so far
    options,       \* options of the current run
    scripts,       \* var scripts
    i,             \* loop index (1-based)
    results,       \* var results
    error,         \* var error
    outcome,       \* how migrateAll left: "returned", "thrown"
    log,           \* statements and connection calls of the current run
    start,         \* database state when the current run began
    pre,           \* database state before the latest migrate call
    callStart,     \* length of log before the latest migrate call
    prev,          \* scripts of the previous run, when it was a clean real run
    committed,     \* hashes of scripts whose SQL was committed
    replaced,      \* hashes a forced update has overwritten
    empty          \* names of the files line 97 has left out in this run

vars == <<te, ledger, applied, tx, _tableExists, pc, runs, options, scripts,
          i, results, error, outcome, log, start, pre, callStart,
          prev, committed, replaced, empty>>

Snapshot ==
    [te |-> te, ledger |-> ledger, applied |-> applied, tx |-> tx,
     flag |-> _tableExists]

NoPrev == [clean |-> FALSE, scripts |-> <<>>]

Init ==
    /\ te = FALSE
    /\ ledger = {}
    /\ applied = <<>>
    /\ tx = NoTx
    /\ _tableExists = FALSE
    /\ pc = "idle"
    /\ runs = 0
    /\ options = [preview |-> FALSE, force |-> FALSE]
    /\ scripts = <<>>
    /\ i = 1
    /\ results = <<>>
    /\ error = NoErr
    /\ outcome = "none"
    /\ log = <<>>
    /\ start = [te |-> FALSE, ledger |-> {}, applied |-> <<>>, tx |-> NoTx,
                flag |-> FALSE]
    /\ pre = [te |-> FALSE, ledger |-> {}, applied |-> <<>>, tx |-> NoTx,
              flag |-> FALSE]
    /\ callStart = 0
    /\ prev = NoPrev
    /\ committed = {}
    /\ replaced = {}
    /\ empty = {}

(* ------------------------------ actions -------------------------------- *)

\* new PgMayflower(options): a fresh instance against the same database
PgMayflower ==
    /\ pc = "done"
    /\ pc' = "idle"
    /\ _tableExists' = FALSE
    /\ UNCHANGED <<te, ledger, applied, tx, runs, options, scripts,
                   i, results, error, outcome, log, start, pre, callStart,
                   prev, committed, replaced, empty>>

\* migrateAll(options), lines 220-229: a call with its options
migrateAllBegin ==
    /\ pc \in {"idle", "done"}
    /\ runs < MaxRuns
    /\ \E preview \in BOOLEAN, force \in BOOLEAN :
         options' = [preview |-> preview, force |-> force]
    /\ runs' = runs + 1
    /\ prev' = IF outcome = "returned" /\ ~options.preview
               THEN [clean |-> TRUE, scripts |-> scripts]
               ELSE NoPrev
    /\ pc' = "load"
    /\ scripts' = <<>>
    /\ i' = 1
    /\ results' = <<>>
    /\ error' = NoErr
    /\ outcome' = "none"
    /\ log' = <<>>
    /\ start' = Snapshot
    /\ pre' = Snapshot
    /\ callStart' = 0
    /\ empty' = {}
    /\ UNCHANGED <<te, ledger, applied, tx, _tableExists, committed, replaced>>

\* the SQL files of a directory that hold nothing but white space
EmptyFiles(dir) == {n \in DOMAIN dir : sqlExt(n) /\ dir[n] \in Seq(WhiteSpace)}

\* lines 232-234: yield this.getAllScripts() over the directory as it is
\* now, then new Pg.Client
migrateAllLoad ==
    /\ pc = "load"
    /\ \E dir \in Directories :
         \E files \in Listings(DOMAIN dir) :
            /\ scripts' = getAllScripts(files, dir)
            /\ empty' = EmptyFiles(dir)
    /\ pc' = "connect"
    /\ UNCHANGED <<te, ledger, applied, tx, _tableExists, runs, options, i,
                   results, error, outcome, log, start, pre, callStart, prev,
                   committed, replaced>>

\* line 235: yield db.connect_(); a failure leaves migrateAll at once
connect_ ==
    /\ pc = "connect"
    /\ \E ok \in BOOLEAN :
         /\ log' = Append(log, [op |-> "connect", name |-> <<>>, ok |-> ok])
         /\ IF ok
            THEN /\ pc' = "loop"
                 /\ UNCHANGED <<error, outcome>>
            ELSE /\ pc' = "done"
                 /\ error' = [type |-> "failed", op |-> "connect"]
                 /\ outcome' = "thrown"
    /\ UNCHANGED <<te, ledger, applied, tx, _tableExists, runs,
                   options, scripts, i, results, start, pre, callStart, prev,
                   committed, replaced, empty>>

\* the migrate call c has committed
didCommit(c) ==
    \E e \in 1..Len(c.log) : c.log[e].op = "COMMIT" /\ c.log[e].ok

\* the hash a forced update of call c has overwritten
Overwritten(c, script) ==
    IF \E e \in 1..Len(c.log) : c.log[e].op = "UPDATE_HASH" /\ c.log[e].ok
    THEN {r.hash : r \in {x \in ledger : x.filename = script.name}}
    ELSE {}

\* variant: the loop does not stop at an error
loopContinues_ignoresError(err, k, list) == k <= Len(list)

\* lines 243-252: the loop goes on while scripts remain and nothing was thrown
loopContinues(err, k, list) == err = NoErr /\ k <= Len(list)

\* lines 245-251: what the loop does with the migrate call c
loopBody(c) ==
    /\ te' = c.te
    /\ ledger' = c.ledger
    /\ applied' = c.applied
    /\ tx' = c.tx
    /\ _tableExists' = c.flag
    /\ log' = log \o c.log
    /\ IF c.st = "ret"
       THEN /\ results' = Append(results, c.res)
            /\ error' = NoErr
       ELSE /\ results' = results
            /\ error' = c.err
    /\ committed' = IF didCommit(c) THEN committed \cup {scripts[i].hash}
                    ELSE committed
    /\ replaced' = IF didCommit(c)
                   THEN replaced \cup Overwritten(c, scripts[i])
                   ELSE replaced

\* each environment is listed once: the failures asked for took place
took(c, failAt, rbFails) ==
    c.inj = (IF failAt > 0 THEN 1 ELSE 0) + (IF rbFails THEN 1 ELSE 0)

\* line 245 in an environment that is listed once
loopStep(c, failAt, rbFails) == took(c, failAt, rbFails) /\ loopBody(c)

\* lines 243-252: one iteration of the loop, with its catch
migrateAllLoop ==
    /\ pc = "loop"
    /\ loopContinues(error, i, scripts)
    /\ \E failAt \in 0..MaxStatements, rbFails \in BOOLEAN :
         loopStep(migrate(Snapshot, options, scripts[i],
                          [failAt |-> failAt, rbFails |-> rbFails]),
                  failAt, rbFails)
    /\ i' = i + 1
    /\ pre' = Snapshot
    /\ callStart' = Len(log)
    /\ UNCHANGED <<pc, runs, options, scripts, outcome, start, prev, empty>>

\* line 254: db.end(); the server aborts a transaction left open
migrateAllEnd ==
    /\ pc = "loop"
    /\ ~loopContinues(error, i, scripts)
    /\ pc' = "ended"
    /\ log' = Append(log, [op |-> "end", name |-> <<>>, ok |-> TRUE])
    /\ IF tx.open
       THEN /\ te' = tx.te
            /\ ledger' = tx.ledger
            /\ applied' = tx.applied
            /\ tx' = NoTx
       ELSE UNCHANGED <<te, ledger, applied, tx>>
    /\ UNCHANGED <<_tableExists, runs, options, scripts, i, results,
                   error, outcome, start, pre, callStart, prev, committed,
                   replaced, empty>>

\* lines 256-279: rethrow the error, or report and return the results
migrateAllExit ==
    /\ pc = "ended"
    /\ pc' = "done"
    /\ outcome' = IF error # NoErr THEN "thrown" ELSE "returned"
    /\ UNCHANGED <<te, ledger, applied, tx, _tableExists, runs,
                   options, scripts, i, results, error, log, start, pre,
                   callStart, prev, committed, replaced, empty>>

Next ==
    \/ PgMayflower
    \/ migrateAllBegin
    \/ migrateAllLoad
    \/ connect_
    \/ migrateAllLoop
    \/ migrateAllEnd
    \/ migrateAllExit

Spec == Init /\ [][Next]_vars

TypeOK ==
    /\ te \in BOOLEAN
    /\ _tableExists \in BOOLEAN
    /\ pc \in {"idle", "load", "connect", "loop", "ended", "done"}
    /\ runs \in 0..MaxRuns
    /\ outcome \in {"none", "returned", "thrown"}

\* the environment makes no statement fail
NoFailure == [failAt |-> 0, rbFails |-> FALSE]

\* lines 241-252 as a function: the loop of migrateAll over list from
\* position k on, from database and instance state d, when the environment
\* makes no statement fail
RECURSIVE migrateAllFrom(_, _, _, _, _)
migrateAllNext(c, opts, list, k, res) ==
    IF c.st = "ret"
    THEN migrateAllFrom([te |-> c.te, ledger |-> c.ledger,
                         applied |-> c.applied, tx |-> c.tx, flag |-> c.flag],
                        opts, list, k + 1, Append(res, c.res))
    ELSE [results |-> res, error |-> c.err]

migrateAllFrom(d, opts, list, k, res) ==
    IF k > Len(list) THEN [results |-> res, error |-> NoErr]
    ELSE migrateAllNext(migrate(d, opts, list[k], NoFailure),
                        opts, list, k, res)

(* ------------------------- the latest migrate call --------------------- *)

\* a migrate call has just returned or thrown
Called == pc = "loop" /\ i > 1

CallScript == scripts[i - 1]

\* the statements the latest migrate call issued
CallLog == SubSeq(log, callStart + 1, Len(log))

Issued(op) == \E e \in 1..Len(CallLog) : CallLog[e].op = op

Succeeded(op) == \E e \in 1..Len(CallLog) : CallLog[e].op = op /\ CallLog[e].ok

Count(op) == Cardinality({e \in 1..Len(CallLog) : CallLog[e].op = op})

\* the call returned; its outcome is the last element of results
Returned == Called /\ error = NoErr

CallResult == results[Len(results)]

\* the error of the call is not a statement the environment made fail
\* (connection lost, SQL error in the script), so every statement the call
\* issued was answered
Answered == error.type # "failed"

HashRecords(d, script) == {r \in d.ledger : r.hash = script.hash}

NameRecords(d, script) == {r \in d.ledger : r.filename = script.name}

RunIssued(op) == \E e \in 1..Len(log) : log[e].op = op

(* -------------------------------- claims ------------------------------- *)

C2_ConflictGuard ==
    (/\ Called
     /\ ~options.force
     /\ HashRecords(pre, CallScript) = {}
     /\ NameRecords(pre, CallScript) # {}) =>
        /\ error # NoErr
        /\ Answered => error = ConflictError
        /\ ~Issued("BEGIN")
        /\ ~Issued("SCRIPT")
        /\ ~Issued("INSERT")
        /\ ~Issued("UPDATE_HASH")
        /\ ~Issued("UPDATE_FILENAME")
        /\ ledger = pre.ledger
        /\ te = pre.te
        /\ applied = pre.applied

\* the conflict error has been thrown for a changed file
C2_Witness ==
    /\ Called
    /\ ~options.force
    /\ HashRecords(pre, CallScript) = {}
    /\ NameRecords(pre, CallScript) # {}
    /\ error = ConflictError

\* C3: a migrate call with force and without preview for a script whose hash
\* has no ledger record while its file name has one, all of whose statements
\* are answered, executes the script SQL once and commits it, writes the
\* ledger with an update keyed by file name and never an insert, and leaves
\* exactly one row for the file name, carrying the new hash, with the number
\* of rows unchanged.
C3_ForceReapply ==
    (/\ Called
     /\ options.force
     /\ ~options.preview
     /\ HashRecords(pre, CallScript) = {}
     /\ NameRecords(pre, CallScript) # {}
     /\ Answered) =>
        /\ error = NoErr
        /\ Count("SCRIPT") = 1
        /\ Succeeded("SCRIPT")
        /\ Count("COMMIT") = 1
        /\ Succeeded("COMMIT")
        /\ ~tx.open
        /\ applied = Append(pre.applied, CallScript.sql)
        /\ Count("UPDATE_HASH") = 1
        /\ ~Issued("INSERT")
        /\ Cardinality(NameRecords(Snapshot, CallScript)) = 1
        /\ \A r \in NameRecords(Snapshot, CallScript) : r.hash = CallScript.hash
        /\ Cardinality(ledger) = Cardinality(pre.ledger)

\* a changed file has been applied again under force
C3_Witness ==
    /\ Called
    /\ options.force
    /\ ~options.preview
    /\ HashRecords(pre, CallScript) = {}
    /\ NameRecords(pre, CallScript) # {}
    /\ Cardinality(pre.ledger) = 2
    /\ Returned
    /\ ~CallResult.skipped
    /\ CallResult.runtime = hrtime

\* C4: whatever the preview and force flags, a migrate call for a script
\* whose hash has a ledger record issues no BEGIN and does not execute the
\* script SQL, and the outcome it returns is skipped with runtime 0.
C4_HashMatchSkips ==
    (Called /\ HashRecords(pre, CallScript) # {}) =>
        /\ ~Issued("BEGIN")
        /\ ~Issued("SCRIPT")
        /\ applied = pre.applied
        /\ Returned => CallResult.skipped /\ CallResult.runtime = 0

\* under force, a script whose hash and file name are both recorded was skipped
C4_Witness ==
    /\ Called
    /\ options.force
    /\ HashRecords(pre, CallScript) # {}
    /\ NameRecords(pre, CallScript) # {}
    /\ Returned
    /\ CallResult.skipped

\* C5 as stated: a non-preview migrate call for a script whose hash is
\* recorded under another file name, all of whose statements are answered,
\* returns a skipped outcome with the rename message, does not execute the
\* script SQL, and leaves the record of that hash with the script's name.
C5_RenameDetection ==
    (/\ Called
     /\ ~options.preview
     /\ \E r \in HashRecords(pre, CallScript) : r.filename # CallScript.name
     /\ error.type # "failed") =>
        /\ Returned
        /\ CallResult.skipped
        /\ CallResult.message # <<>>
        /\ ~Issued("SCRIPT")
        /\ \A r \in HashRecords(Snapshot, CallScript) :
              r.filename = CallScript.name
        /\ HashRecords(Snapshot, CallScript) # {}

\* the rename update was rejected because the name is taken by another record
C5_NameTaken ==
    /\ Called
    /\ ~options.preview
    /\ \E r \in HashRecords(pre, CallScript) : r.filename # CallScript.name
    /\ error = [type |-> "constraint", op |-> "UPDATE_FILENAME"]

Failed(op) == \E e \in 1..Len(log) : log[e].op = op /\ ~log[e].ok

\* C6: in a run with preview = true no CREATE TABLE, ledger insert, ledger
\* update or COMMIT is issued, the ledger table and its rows stay as they
\* were when the run began, and no script effect is left when the run is
\* over; every outcome that is not skipped had its script SQL executed, and
\* a script SQL error makes migrateAll throw (that very error, unless the
\* ROLLBACK that follows fails too).
C6_PreviewNeverPersists ==
    options.preview =>
        /\ ~RunIssued("CREATE_TABLE")
        /\ ~RunIssued("INSERT")
        /\ ~RunIssued("UPDATE_HASH")
        /\ ~RunIssued("UPDATE_FILENAME")
        /\ ~RunIssued("COMMIT")
        /\ te = start.te
        /\ ledger = start.ledger
        /\ pc = "done" => applied = start.applied /\ ~tx.open
        /\ \A k \in 1..Len(results) :
              ~results[k].skipped =>
                 \E e \in 1..Len(log) : /\ log[e].op = "SCRIPT"
                                        /\ log[e].name = results[k].name
                                        /\ log[e].ok
        /\ Failed("SCRIPT") =>
              /\ error # NoErr
              /\ error.op = "SCRIPT" \/ Failed("ROLLBACK")
              /\ pc = "done" => outcome = "thrown"

\* a preview run against a database without ledger table executed a script
\* and then hit an SQL error in the next one
C6_Witness ==
    /\ options.preview
    /\ ~start.te
    /\ pc = "done"
    /\ outcome = "thrown"
    /\ error.op = "SCRIPT"
    /\ Len(results) = 1
    /\ ~results[1].skipped

Decisions(res) ==
    [k \in 1..Len(res) |-> [name |-> res[k].name, skipped |-> res[k].skipped]]

\* the run has made the decisions of the run other
SameDecisions(other) ==
    /\ Decisions(results) = Decisions(other.results)
    /\ (error = NoErr) <=> (other.error = NoErr)

\* C7 as stated: a run in which the environment makes no statement fail
\* collects the same outcomes (names and skipped flags), and fails or not,
\* as the run with the opposite preview flag from the same state.
C7_PreviewEqualsReal ==
    (pc = "done" /\ Answered) =>
        SameDecisions(migrateAllFrom(start, [options EXCEPT !.preview = ~@],
                                     scripts, 1, <<>>))

SameRun(other) == results = other.results /\ error = other.error

\* the function used for the comparison agrees with the run itself
LoopFunctionAgrees ==
    (pc = "done" /\ Answered) =>
        SameRun(migrateAllFrom(start, options, scripts, 1, <<>>))

\* the ledger as other connections see it
PersistedLedger == IF tx.open THEN tx.ledger ELSE ledger

LedgerHashes == {r.hash : r \in PersistedLedger}

\* C8 as stated: a record with hash f exists if and only if a script with
\* hash f has had its SQL committed.
C8_RecordIffCommitted == LedgerHashes = committed

\* C8 amended: every record's hash is the hash of a script whose SQL was
\* committed, and every such hash has a record unless a forced update of the
\* record has overwritten it.
C8_RecordOnlyIfCommitted ==
    /\ LedgerHashes \subseteq committed
    /\ (committed \ LedgerHashes) \subseteq replaced

\* a forced update has overwritten the hash of a committed script
C8_Witness ==
    /\ pc = "done"
    /\ LedgerHashes # {}
    /\ committed \ LedgerHashes # {}

EndCalls == Cardinality({e \in 1..Len(log) : log[e].op = "end"})

\* C9 as stated: when migrateAll has returned or thrown, db.end has been
\* called exactly once.
C9_ConnectionRelease == pc = "done" => EndCalls = 1

\* the part of C9 the code keeps: once connected, db.end is called exactly
\* once before migrateAll returns or throws
EndAfterConnect ==
    /\ EndCalls <= 1
    /\ (pc = "done" /\ error.op # "connect") => EndCalls = 1

StatementsFor(names) ==
    \A e \in 1..Len(log) :
       log[e].op \in {"connect", "end"} \/ log[e].name \in names

\* C10: once migrate has thrown for the script at position k, the next
\* steps of migrateAll are db.end and then the throw of that same error,
\* with no statement in between; so when migrateAll throws, every statement
\* of the run belongs to a script at a position up to k and the last entry
\* of the log is the db.end.
C10_FailFast ==
    /\ [](((pc \in {"ended", "done"}) /\ error # NoErr /\ error.op # "connect")
            => /\ StatementsFor({scripts[j].name : j \in 1..(Len(results) + 1)})
               /\ log[Len(log)].op = "end"
               /\ EndCalls = 1
               /\ pc = "done" => outcome = "thrown")
    /\ [][(pc = "loop" /\ error # NoErr)
            => /\ pc' = "ended"
               /\ log' = Append(log, [op |-> "end", name |-> <<>>, ok |-> TRUE])
               /\ error' = error]_vars
    /\ [][(pc = "ended" /\ error # NoErr)
            => /\ pc' = "done"
               /\ outcome' = "thrown"
               /\ log' = log
               /\ error' = error]_vars

\* migrateAll threw for the first of two scripts; the second was not tried
C10_Witness ==
    /\ pc = "done"
    /\ outcome = "thrown"
    /\ error.op # "connect"
    /\ Len(scripts) = 2
    /\ Len(results) = 0
    /\ RunIssued("ROLLBACK")

\* a migrate call of the current run is over
CallOver == pc \in {"loop", "ended", "done"} /\ i > 1

\* the statements of the apply step that can fail after BEGIN
ApplyOps == {"SCRIPT", "INSERT", "UPDATE_HASH", "COMMIT"}

\* positions in the latest call's log of the apply statements that failed
ApplyFailures ==
    {e \in 1..Len(CallLog) : CallLog[e].op \in ApplyOps /\ ~CallLog[e].ok}

RolledBackAfter(e) ==
    \E r \in (e + 1)..Len(CallLog) : CallLog[r].op = "ROLLBACK"

\* C11 as stated: when the script SQL, the ledger write or the COMMIT of a
\* migrate call has failed, a ROLLBACK was issued after it and the error
\* migrate throws, and migrateAll throws in turn, is the error of that failed
\* statement, whether or not the ROLLBACK succeeded.
C11_FailurePropagation ==
    CallOver =>
        \A e \in ApplyFailures :
           /\ RolledBackAfter(e)
           /\ error # NoErr
           /\ error.op = CallLog[e].op
           /\ pc = "done" => outcome = "thrown"

\* the part of C11 the code keeps: the original error is the one thrown
\* when the ROLLBACK of the catch block is answered
PropagatesWhenRolledBack ==
    CallOver =>
        \A e \in ApplyFailures :
           /\ RolledBackAfter(e)
           /\ error # NoErr
           /\ (\A r \in 1..Len(CallLog) :
                  CallLog[r].op = "ROLLBACK" => CallLog[r].ok)
                 => error.op = CallLog[e].op
           /\ pc = "done" => outcome = "thrown"

\* the script SQL failed, the ROLLBACK failed too, and the error thrown is
\* the one of the ROLLBACK
C11_RollbackErrorThrown ==
    /\ pc = "done"
    /\ outcome = "thrown"
    /\ \E e \in ApplyFailures : CallLog[e].op = "SCRIPT"
    /\ error = [type |-> "failed", op |-> "ROLLBACK"]

\* a comes before b in plain string comparison: at the first position where
\* they differ a has the smaller code unit, or a is a proper prefix of b
Precedes(a, b) ==
    \E k \in 1..Len(b) :
       /\ \A j \in 1..(k - 1) : j <= Len(a) /\ a[j] = b[j]
       /\ k > Len(a) \/ CharCode(a[k]) < CharCode(b[k])

Ascending(names) ==
    \A j, k \in 1..Len(names) : j < k => Precedes(names[j], names[k])

\* file names with numeric prefixes, of different lengths, one a prefix of
\* another: 002_a.sql, 001_b.sql, 010_c.sql, 1.sql, 1.sql.sql
NumberedFiles ==
    { <<"0", "0", "2", "_", "a", ".", "s", "q", "l">>,
      <<"0", "0", "1", "_", "b", ".", "s", "q", "l">>,
      <<"0", "1", "0", "_", "c", ".", "s", "q", "l">>,
      <<"1", ".", "s", "q", "l">>,
      <<"1", ".", "s", "q", "l", ".", "s", "q", "l">> }

ScriptNames(list) == [k \in 1..Len(list) |-> list[k].name]

\* getAllScripts over a listing of non-empty files returns every listed
\* name once, in ascending order
LoadsInOrder(files) ==
    /\ Ascending(ScriptNames(getAllScripts(files, [n \in NumberedFiles |-> <<"x">>])))
    /\ {getAllScripts(files, [n \in NumberedFiles |-> <<"x">>])[k].name :
          k \in 1..Len(files)} = {files[k] : k \in 1..Len(files)}
    /\ Len(getAllScripts(files, [n \in NumberedFiles |-> <<"x">>])) = Len(files)

\* position in scripts of the script a statement was issued for
PositionOf(name) == CHOOSE k \in 1..Len(scripts) : scripts[k].name = name

Statements == {e \in 1..Len(log) : log[e].op \notin {"connect", "end"}}

\* C12: the scripts migrateAll loads are in ascending order of file name
\* (plain string comparison) whatever the order of the directory listing,
\* also for a first run about to load a directory of numbered files;
\* the statements of a run are issued script by script in that order, the
\* k-th outcome collected is the outcome of the k-th script, and a run that
\* returns has collected one outcome per loaded script.
C12_ApplyOrder ==
    /\ (pc = "load" /\ runs = 1) =>
          \A S \in SUBSET NumberedFiles : \A files \in Listings(S) :
             LoadsInOrder(files)
    /\ Ascending(ScriptNames(scripts))
    /\ \A e \in Statements : \E k \in 1..Len(scripts) : scripts[k].name = log[e].name
    /\ \A d, e \in Statements :
          d < e => PositionOf(log[d].name) <= PositionOf(log[e].name)
    /\ Len(results) <= Len(scripts)
    /\ \A k \in 1..Len(results) : results[k].name = scripts[k].name
    /\ (pc = "done" /\ outcome = "returned") => Len(results) = Len(scripts)

\* a run over b.sql and a.sql has applied a.sql and then b.sql and returned
C12_Witness ==
    /\ pc = "done"
    /\ outcome = "returned"
    /\ Len(results) = 2
    /\ results[1].name = <<"a", ".", "s", "q", "l">>
    /\ results[2].name = <<"b", ".", "s", "q", "l">>
    /\ ~results[1].skipped
    /\ ~results[2].skipped
    /\ \E d, e \in Statements :
          /\ d < e
          /\ log[d].op = "COMMIT" /\ log[d].name = results[1].name
          /\ log[e].op = "BEGIN" /\ log[e].name = results[2].name

\* the transactions opened in the current run: positions of the BEGINs that
\* were answered
Begun == {e \in 1..Len(log) : log[e].op = "BEGIN" /\ log[e].ok}

\* the COMMITs and ROLLBACKs that ended the transaction begun at e: answered,
\* for the same script, with no statement of another script and no db.end
\* in between
Terminators(e) ==
    {f \in (e + 1)..Len(log) :
        /\ log[f].op \in {"COMMIT", "ROLLBACK"}
        /\ log[f].ok
        /\ \A g \in e..f : log[g].name = log[e].name}

\* the ROLLBACK for the transaction begun at e failed, as the last statement
\* issued for its script
RollbackFailed(e) ==
    \E f \in (e + 1)..Len(log) :
       /\ log[f].op = "ROLLBACK"
       /\ ~log[f].ok
       /\ \A g \in e..f : log[g].name = log[e].name
       /\ \A g \in (f + 1)..Len(log) : log[g].op = "end"

CommitsFor(name) ==
    Cardinality({e \in 1..Len(log) : log[e].op = "COMMIT" /\ log[e].name = name})

AtMostOneCommit == \A k \in 1..Len(scripts) : CommitsFor(scripts[k].name) <= 1

\* C13 as stated: every transaction begun in the run was ended by exactly
\* one COMMIT or ROLLBACK of the same script before any statement of another
\* script and before db.end, no migrate call issued more than one COMMIT, and
\* no transaction is open once a migrate call has returned or thrown.
C13_TransactionBoundary ==
    /\ \A e \in Begun : Cardinality(Terminators(e)) = 1
    /\ AtMostOneCommit
    /\ ~tx.open

\* C13 amended: the same, except that a transaction whose ROLLBACK failed
\* has no terminating statement and stays open after migrate has thrown,
\* until db.end closes the connection, which is the next thing migrateAll
\* does.
C13_BoundaryUnlessRollbackFails ==
    /\ \A e \in Begun :
          /\ Cardinality(Terminators(e)) <= 1
          /\ Terminators(e) = {} => RollbackFailed(e) /\ error # NoErr
    /\ AtMostOneCommit
    /\ tx.open =>
          /\ pc = "loop"
          /\ error # NoErr
          /\ log[Len(log)].op = "ROLLBACK"
          /\ ~log[Len(log)].ok
    /\ pc \in {"ended", "done"} => ~tx.open

\* the first script of a run was committed, the SQL of the second failed
\* and its transaction was rolled back
C13_Witness ==
    /\ Called
    /\ Len(results) = 1
    /\ ~results[1].skipped
    /\ error = [type |-> "failed", op |-> "SCRIPT"]
    /\ Cardinality(Begun) = 2
    /\ \A e \in Begun : Cardinality(Terminators(e)) = 1
    /\ Succeeded("ROLLBACK")
    /\ ~tx.open

\* the content of a loaded script: its trimmed text with CRLF replaced by LF
Content(script) == replaceCRLF(script.sql)

\* C14 as stated: two loaded scripts whose content is identical have the
\* same hash, whatever their names and whatever whitespace surrounded the
\* text in their files.
C14_FingerprintOfContent ==
    \A j, k \in 1..Len(scripts) :
       Content(scripts[j]) = Content(scripts[k])
          => scripts[j].hash = scripts[k].hash

\* two files with the same statement, one of them ending in a newline, were
\* both executed in one run that returned
C14_SameContentAppliedTwice ==
    /\ pc = "done"
    /\ outcome = "returned"
    /\ ~options.preview
    /\ Len(scripts) = 2
    /\ scripts[1].sql = scripts[2].sql
    /\ scripts[1].hash # scripts[2].hash
    /\ ~results[1].skipped
    /\ ~results[2].skipped

\* directories to load from: SQL files, a file of another kind and a file
\* named .sql, each with a statement, a statement surrounded by white space,
\* white space only, or nothing
LoadDirectories ==
    UNION {[S -> { <<"x">>, <<" ", "x", "\n">>, <<" ", "\t">>, <<>> }] :
             S \in SUBSET { <<"a", ".", "s", "q", "l">>,
                            <<"b", ".", "s", "q", "l">>,
                            <<"a", ".", "m", "d">>,
                            <<".", "s", "q", "l">> }}

\* the name ends in .sql after at least one other character
HasSqlExtension(name) ==
    /\ Len(name) > 4
    /\ \A k \in 1..4 : name[Len(name) - 4 + k] = <<".", "s", "q", "l">>[k]

Blank(text) == \A k \in 1..Len(text) : text[k] \in WhiteSpace

\* what getAllScripts is to return for a directory: the SQL files that are
\* not blank
Loadable(dir) == {n \in DOMAIN dir : HasSqlExtension(n) /\ ~Blank(dir[n])}

\* getAllScripts returns each loadable file once and nothing else
ReturnsLoadable(files, dir) ==
    /\ {getAllScripts(files, dir)[k].name :
          k \in 1..Len(getAllScripts(files, dir))} = Loadable(dir)
    /\ Len(getAllScripts(files, dir)) = Cardinality(Loadable(dir))
    /\ \A k \in 1..Len(getAllScripts(files, dir)) :
          getAllScripts(files, dir)[k].sql # <<>>

\* C15: getAllScripts returns exactly the files with the SQL extension whose
\* text is not blank (checked for every directory and listing when a first
\* run is about to load); in a run, no file left out as empty is among the
\* scripts, has an outcome, has a statement issued for it or has a ledger
\* row written for it.
C15_EmptyExcluded ==
    /\ (pc = "load" /\ runs = 1) =>
          \A dir \in LoadDirectories : \A files \in Listings(DOMAIN dir) :
             ReturnsLoadable(files, dir)
    /\ \A k \in 1..Len(scripts) :
          /\ scripts[k].sql # <<>>
          /\ HasSqlExtension(scripts[k].name)
          /\ scripts[k].name \notin empty
    /\ \A n \in empty :
          /\ \A k \in 1..Len(results) : results[k].name # n
          /\ \A e \in 1..Len(log) : log[e].name # n
          /\ \A r \in ledger : r.filename = n => r \in start.ledger

\* a run over a blank a.sql and a b.sql with a statement has applied b.sql
\* alone and returned
C15_Witness ==
    /\ pc = "done"
    /\ outcome = "returned"
    /\ empty = { <<"a", ".", "s", "q", "l">> }
    /\ Len(scripts) = 1
    /\ Len(results) = 1
    /\ ~results[1].skipped
    /\ Cardinality(ledger) = Cardinality(start.ledger) + 1

\* the statements createMigrationsTable issues
TableOps == {"SELECT_TABLES", "CREATE_TABLE"}

\* createMigrationsTable returned normally in the latest migrate call: none
\* of its statements failed
TableCallReturned ==
    \A e \in 1..Len(CallLog) : CallLog[e].op \in TableOps => CallLog[e].ok

\* C16: a migrate call made when _tableExists is already true issues neither
\* the catalog query nor CREATE TABLE; _tableExists is true only when the
\* ledger table exists; after a call of createMigrationsTable without
\* preview that returned normally the table exists and _tableExists is true;
\* and no call issues either statement more than once.
C16_TableMemo ==
    /\ _tableExists => te
    /\ (Called /\ pre.flag) =>
          /\ ~Issued("SELECT_TABLES")
          /\ ~Issued("CREATE_TABLE")
          /\ _tableExists
    /\ (Called /\ ~options.preview /\ TableCallReturned) =>
          te /\ _tableExists
    /\ Called => Count("SELECT_TABLES") <= 1 /\ Count("CREATE_TABLE") <= 1
    /\ (Called /\ Succeeded("CREATE_TABLE")) => ~pre.te /\ ~pre.flag

\* the first migrate call of a run created the table; the second one, on
\* the same instance, asked nothing about the table and applied its script
C16_Witness ==
    /\ Called
    /\ i = 3
    /\ RunIssued("CREATE_TABLE")
    /\ pre.flag
    /\ ~Issued("SELECT_TABLES")
    /\ Succeeded("INSERT")
    /\ Returned

\* the statements that name the ledger table
LedgerOps ==
    {"SELECT_BY_HASH", "SELECT_BY_FILENAME", "INSERT", "UPDATE_HASH",
     "UPDATE_FILENAME", "CREATE_TABLE"}

\* every statement of the latest migrate call with one of the ops was answered
AllAnswered(ops) ==
    \A e \in 1..Len(CallLog) : CallLog[e].op \in ops => CallLog[e].ok

\* C17: a migrate call in preview mode made while the ledger table does not
\* exist issues no statement that names the ledger table and leaves the
\* table missing; when its catalog query and its BEGIN are answered it
\* executes the script SQL, after the BEGIN and before a ROLLBACK; when the
\* script SQL succeeds and the ROLLBACK is answered it returns an outcome
\* that is not skipped, with nothing of the script left in the database.
C17_PreviewWithoutTable ==
    (Called /\ options.preview /\ ~pre.te) =>
        /\ \A e \in 1..Len(CallLog) : CallLog[e].op \notin LedgerOps
        /\ ~te
        /\ ~_tableExists
        /\ ~Issued("COMMIT")
        /\ AllAnswered({"SELECT_TABLES", "BEGIN"}) =>
              \E b, x, r \in 1..Len(CallLog) :
                 /\ b < x /\ x < r
                 /\ CallLog[b].op = "BEGIN"
                 /\ CallLog[x].op = "SCRIPT"
                 /\ CallLog[r].op = "ROLLBACK"
        /\ (Succeeded("SCRIPT") /\ AllAnswered({"ROLLBACK"})) =>
              /\ Returned
              /\ ~CallResult.skipped
              /\ CallResult.name = CallScript.name
              /\ applied = pre.applied
              /\ ~tx.open

\* a preview run against a database without ledger table has executed two
\* files of the same text, one after the other, and rolled both back
C17_Witness ==
    /\ pc = "done"
    /\ outcome = "returned"
    /\ options.preview
    /\ ~start.te
    /\ Len(scripts) = 2
    /\ scripts[1].hash = scripts[2].hash
    /\ Len(results) = 2
    /\ ~results[1].skipped
    /\ ~results[2].skipped
    /\ Count("SCRIPT") = 1
    /\ Count("ROLLBACK") = 1
    /\ applied = start.applied

\* the outcome at position j says the script was applied
AppliedAt(j) == ~results[j].skipped

\* positions of the scripts the current run has applied, in order
AppliedPositions ==
    SelectSeq([j \in 1..Len(results) |-> j], AppliedAt)

\* the SQL the current run has applied, in order
AppliedSql ==
    [m \in 1..Len(AppliedPositions) |-> scripts[AppliedPositions[m]].sql]

\* C18: in a run without preview, when the script SQL, the ledger write or
\* the COMMIT of a migrate call has failed and no ROLLBACK of the call has,
\* then from the moment migrate throws and after migrateAll has thrown the
\* rows of the ledger and the script effects are those before the call: the
\* effects in the database are, in order, those of the scripts the run
\* applied before, each of which has a ledger record with its hash, under
\* its own name unless a later script has the same hash.
C18_AtomicOnFailure ==
    (/\ CallOver
     /\ ~options.preview
     /\ ApplyFailures # {}
     /\ AllAnswered({"ROLLBACK"})) =>
        /\ error # NoErr
        /\ pc = "done" => outcome = "thrown"
        /\ ~tx.open
        /\ ledger = pre.ledger
        /\ applied = pre.applied
        /\ applied = start.applied \o AppliedSql
        /\ \A j \in 1..Len(results) :
              AppliedAt(j) =>
                 /\ \E r \in ledger : r.hash = scripts[j].hash
                 /\ (\A m \in (j + 1)..Len(results) :
                        scripts[m].hash # scripts[j].hash)
                       => \E r \in ledger : /\ r.hash = scripts[j].hash
                                            /\ r.filename = scripts[j].name

\* the first script of a run was applied; the second one was executed and
\* its ledger insert answered, then its COMMIT failed and the ROLLBACK was
\* answered; migrateAll has thrown
C18_Witness ==
    /\ pc = "done"
    /\ outcome = "thrown"
    /\ ~options.preview
    /\ Len(results) = 1
    /\ AppliedAt(1)
    /\ Succeeded("SCRIPT")
    /\ Succeeded("INSERT")
    /\ error = [type |-> "failed", op |-> "COMMIT"]
    /\ Succeeded("ROLLBACK")
    /\ Cardinality(ledger) = Cardinality(start.ledger) + 1

\* no two of the rows share a hash or a file name
UniqueKeys(rows) ==
    \A r1, r2 \in rows :
       (r1.hash = r2.hash \/ r1.filename = r2.filename) => r1 = r2

\* C19: the insert of the apply step is issued only when no row had the
\* script's hash or its file name before the call, the forced update only
\* when no row had the script's hash (and one had its file name); no two
\* rows of the ledger ever share a hash or a file name, and the only
\* statement the database rejects for a duplicate key is the rename update
\* made before the apply step.
C19_WritesRespectKeys ==
    /\ UniqueKeys(ledger)
    /\ UniqueKeys(PersistedLedger)
    /\ (CallOver /\ Issued("INSERT")) =>
          /\ HashRecords(pre, CallScript) = {}
          /\ NameRecords(pre, CallScript) = {}
          /\ ~Issued("UPDATE_HASH")
    /\ (CallOver /\ Issued("UPDATE_HASH")) =>
          /\ HashRecords(pre, CallScript) = {}
          /\ Cardinality(NameRecords(pre, CallScript)) = 1
          /\ options.force
    /\ error.type = "constraint" => error.op = "UPDATE_FILENAME"

\* after a run that returned, a forced update has replaced the hash of the
\* record of a committed script, in a ledger of two rows
C19_Witness ==
    /\ Called
    /\ Returned
    /\ Succeeded("UPDATE_HASH")
    /\ Cardinality(ledger) = 2
    /\ prev.clean
    /\ \E r \in pre.ledger : r.filename = CallScript.name
                             /\ r.hash \in committed

\* position of the last loaded script with the hash of the script at k
LastWithHashOf(k) ==
    CHOOSE m \in k..Len(scripts) :
       /\ scripts[m].hash = scripts[k].hash
       /\ \A n \in (m + 1)..Len(scripts) : scripts[n].hash # scripts[k].hash

\* C20: when a run without preview has returned, every loaded script has
\* one ledger record with its hash, and the file name of that record is the
\* name of the last loaded script with that hash.
C20_Convergence ==
    (pc = "done" /\ outcome = "returned" /\ ~options.preview) =>
        \A k \in 1..Len(scripts) :
           /\ te
           /\ Cardinality(HashRecords(Snapshot, scripts[k])) = 1
           /\ \A r \in HashRecords(Snapshot, scripts[k]) :
                 r.filename = scripts[LastWithHashOf(k)].name

\* a run over two files of the same text has executed the first, skipped
\* the second and left the one record under the name of the second
C20_Witness ==
    /\ pc = "done"
    /\ outcome = "returned"
    /\ ~options.preview
    /\ Len(scripts) = 2
    /\ scripts[1].hash = scripts[2].hash
    /\ ~results[1].skipped
    /\ results[2].skipped
    /\ results[2].message = RenameMessage(scripts[2].name)
    /\ \E r \in ledger : r.hash = scripts[1].hash
                         /\ r.filename = scripts[2].name

====
